---- MODULE Spec2Model ----
(***************************************************************************)
(* A model of dirextdiff.py: dirextdiff(a, b, command) and main().         *)
(*                                                                         *)
(* A path is a sequence of components; a component is a sequence of atoms  *)
(* (the pieces of a file name).  The atom "and" stands for the substring   *)
(* " and " inside a file name, so that the text diff prints for a pair of  *)
(* files and the regular expression that reads it back are both modelled   *)
(* on the same flat sequence of atoms.                                     *)
(***************************************************************************)
EXTENDS Integers, Sequences, FiniteSets, TLC

\* ------------------------------------------------------------------ bounds
\* The external tool changes (edits or removes) at most this many staged files.
MaxToolOps == 2

\* ------------------------------------------------------------- os.path
SLASH == "/"
DOT == <<".">>
DOTDOT == <<"..">>
CWD == << <<"cwd">> >>
TMPBASE == << <<"tmp">> >>

isabs(p) == Len(p) > 0 /\ p[1] \in {<<"cwd">>, <<"tmp">>}

RECURSIVE normparts(_, _)
normparts(p, acc) ==
  IF p = <<>> THEN acc
  ELSE LET c == Head(p) IN
       IF c = DOT \/ c = <<>> THEN normparts(Tail(p), acc)
       ELSE IF c = DOTDOT /\ Len(acc) > 0 /\ acc[Len(acc)] # DOTDOT
            THEN normparts(Tail(p), SubSeq(acc, 1, Len(acc) - 1))
            ELSE normparts(Tail(p), Append(acc, c))

normpath(p) == normparts(p, <<>>)

join(p, q) == IF isabs(q) THEN q ELSE p \o q

abspath(p) == normpath(join(CWD, p))

dirname(p) == IF Len(p) = 0 THEN <<>> ELSE SubSeq(p, 1, Len(p) - 1)

basename(p) == IF Len(p) = 0 THEN <<>> ELSE << p[Len(p)] >>

split(p) == << dirname(p), basename(p) >>

RECURSIVE commonlen(_, _)
commonlen(p, q) ==
  IF p = <<>> \/ q = <<>> \/ Head(p) # Head(q) THEN 0
  ELSE 1 + commonlen(Tail(p), Tail(q))

relpath(p, start) ==
  LET ap == abspath(p)
      as == abspath(start)
      k == commonlen(ap, as)
      r == [j \in 1..(Len(as) - k) |-> DOTDOT] \o SubSeq(ap, k + 1, Len(ap))
  IN IF r = <<>> THEN <<DOT>> ELSE r

\* ------------------------------------------------- text of diff's output
RECURSIVE flat(_)
flat(p) ==
  IF p = <<>> THEN <<>>
  ELSE IF Len(p) = 1 THEN p[1]
  ELSE p[1] \o <<SLASH>> \o flat(Tail(p))

RECURSIVE unflat(_, _)
unflat(t, cur) ==
  IF t = <<>> THEN <<cur>>
  ELSE IF Head(t) = SLASH THEN <<cur>> \o unflat(Tail(t), <<>>)
  ELSE unflat(Tail(t), Append(cur, Head(t)))

pathof(t) == unflat(t, <<>>)

\* Line 49: re.match('Files (.+) and (.+) differ', line) on the atoms of a line.
\* The match is anchored at the start only; both groups are greedy, so the first
\* group ends at the last " and " that still leaves a non-empty second group
\* before a " differ", and the second group ends at the last " differ".
NoMatch == [matched |-> FALSE, g1 |-> <<>>, g2 |-> <<>>]

splits(line) ==
  { ij \in (1..Len(line)) \X (1..Len(line)) :
      /\ ij[1] >= 3
      /\ line[ij[1]] = "and"
      /\ ij[2] >= ij[1] + 2
      /\ line[ij[2]] = "differ" }

greedy(line) ==
  CHOOSE ij \in splits(line) :
    \A o \in splits(line) : o[1] < ij[1] \/ (o[1] = ij[1] /\ o[2] <= ij[2])

match(line) ==
  IF Len(line) >= 1 /\ line[1] = "Files" /\ splits(line) # {}
  THEN LET ij == greedy(line) IN
       [matched |-> TRUE,
        g1 |-> SubSeq(line, 2, ij[1] - 1),
        g2 |-> SubSeq(line, ij[1] + 1, ij[2] - 1)]
  ELSE NoMatch

\* Lines 51-54: the entry built from one matching line.
entry_of(m, a, b) ==
  [afile |-> abspath(pathof(m.g1)),
   bfile |-> abspath(pathof(m.g2)),
   arel |-> relpath(pathof(m.g1), a),
   brel |-> relpath(pathof(m.g2), b)]

\* Lines 47-56: the loop over the lines of diff's output.
RECURSIVE parse_entries(_, _, _)
parse_entries(lines, a, b) ==
  IF lines = <<>> THEN <<>>
  ELSE LET m == match(Head(lines)) IN
       (IF m.matched THEN << entry_of(m, a, b) >> ELSE <<>>)
         \o parse_entries(Tail(lines), a, b)

RECURSIVE parse_printed(_)
parse_printed(lines) ==
  IF lines = <<>> THEN <<>>
  ELSE (IF match(Head(lines)).matched THEN <<>> ELSE << Head(lines) >>)
         \o parse_printed(Tail(lines))

\* Lines 30-33: the single entry of file mode.
file_entry(a, b) ==
  [afile |-> abspath(a), bfile |-> abspath(b),
   arel |-> split(a)[2], brel |-> split(b)[2]]

\* ------------------------------------------------------------ file system
\* files maps the absolute path of every plain file to its content; dirs is the
\* set of absolute paths of the directories.  Every operation resolves the path
\* it is given as the operating system does (relative to the working directory,
\* with "." and ".." followed).
VARIABLES files, dirs

isfile(p) == abspath(p) \in DOMAIN files

isdir(p) == abspath(p) \in dirs

exists(p) == isfile(p) \/ isdir(p)

isprefix(p, q) == Len(p) <= Len(q) /\ SubSeq(q, 1, Len(p)) = p

ancestors(p) == { SubSeq(p, 1, n) : n \in 1..Len(p) }

\* os.mkdir(p): the parent must be a directory and p must not exist.
mkdir_ok(p) == isdir(dirname(abspath(p))) /\ ~exists(p)

\* os.makedirs(p, exist_ok=True): fails when p or one of its ancestors is a file.
makedirs_ok(p) == \A q \in ancestors(abspath(p)) : q \notin DOMAIN files

makedirs_dirs(p) == dirs \cup ancestors(abspath(p))

\* shutil.copy(src, dst): a directory dst stands for dst/basename(src).
copy_target(src, dst) ==
  IF isdir(dst) THEN abspath(join(abspath(dst), basename(abspath(src))))
  ELSE abspath(dst)

copy_ok(src, dst) ==
  /\ isfile(src)
  /\ copy_target(src, dst) \notin dirs
  /\ dirname(copy_target(src, dst)) \in dirs
  /\ copy_target(src, dst) # abspath(src)

copy_files(src, dst) ==
  [q \in DOMAIN files \cup {copy_target(src, dst)} |->
     IF q = copy_target(src, dst) THEN files[abspath(src)] ELSE files[q]]

\* shutil.rmtree(p), as TemporaryDirectory's cleanup calls it.
rmtree_files(p) ==
  [q \in {f \in DOMAIN files : ~isprefix(abspath(p), f)} |-> files[q]]

rmtree_dirs(p) == {d \in dirs : ~isprefix(abspath(p), d)}

\* --------------------------------------------------- diff -r -q a b (line 40)
\* The names a directory can hold, in the order diff lists them.
NameOrder == << <<"p">>, <<"p", "and", "a">>, <<"x">>, <<"x", "and", "B">>, <<"y">> >>

files_line(p, q) == <<"Files">> \o flat(p) \o <<"and">> \o flat(q) \o <<"differ">>

only_line(p, n) == <<"Only in">> \o flat(p) \o <<":">> \o n

kind_line(p, q) ==
  <<"File">> \o flat(p) \o <<"is a">> \o
    <<IF isdir(p) THEN "directory" ELSE "regular file">> \o <<"while file">> \o
    flat(q) \o <<"is a">> \o <<IF isdir(q) THEN "directory" ELSE "regular file">>

RECURSIVE diff_lines(_, _, _)
diff_lines(p, q, names) ==
  IF names = <<>> THEN <<>>
  ELSE LET n == Head(names)
           pn == Append(p, n)
           qn == Append(q, n)
           here ==
             IF exists(pn) /\ exists(qn)
             THEN IF isfile(pn) /\ isfile(qn)
                  THEN IF files[abspath(pn)] # files[abspath(qn)]
                       THEN << files_line(pn, qn) >> ELSE <<>>
                  ELSE IF isdir(pn) /\ isdir(qn)
                       THEN diff_lines(pn, qn, NameOrder)
                       ELSE << kind_line(pn, qn) >>
             ELSE IF exists(pn) THEN << only_line(p, n) >>
             ELSE IF exists(qn) THEN << only_line(q, n) >>
             ELSE <<>>
       IN here \o diff_lines(p, q, Tail(names))

\* diff's exit status: 0 no differences, 1 differences, 2 trouble.
diff_status(a, b) ==
  IF ~isdir(a) \/ ~isdir(b) THEN 2
  ELSE IF diff_lines(a, b, NameOrder) = <<>> THEN 0 ELSE 1

\* Line 48: diff_out.split('\n'); the text ends with a newline (or is empty), so
\* the last element is the empty line.
diff_output(a, b) ==
  (IF isdir(a) /\ isdir(b) THEN diff_lines(a, b, NameOrder) ELSE <<>>) \o << <<>> >>

\* ------------------------------------------------------- command templates
\* Lines 12-14.  An argument is a sequence of atoms; "{a}" and "{b}" are the
\* replacement fields.
PROGRAMS ==
  [diff |-> << <<"diff">>, <<"-u">>, <<"{a}">>, <<"{b}">> >>,
   ediff |-> << <<"emacs">>, <<"--eval">>,
                <<"(ediff-directories \"", "{a}", "\" \"", "{b}", "\" \"\")">> >>,
   colordiff |-> << <<"colordiff">>, <<"-u">>, <<"{a}">>, <<"{b}">> >>]

\* Line 92: args.command if args.command else PROGRAMS[args.program]
main_command(program, cmd) == IF cmd # <<>> THEN cmd ELSE PROGRAMS[program]

\* Line 71: x.format(a=atmp, b=btmp); a field other than a and b is a KeyError.
isfield(t) == t \in {"{a}", "{b}", "{c}"}

format_ok(x) == \A n \in 1..Len(x) : isfield(x[n]) => x[n] \in {"{a}", "{b}"}

RECURSIVE format(_, _, _)
format(x, ka, kb) ==
  IF x = <<>> THEN <<>>
  ELSE (IF Head(x) = "{a}" THEN flat(ka)
        ELSE IF Head(x) = "{b}" THEN flat(kb)
        ELSE << Head(x) >>) \o format(Tail(x), ka, kb)

\* ------------------------------------------------------------------ state
VARIABLES
  a, b, command,      \* the arguments of dirextdiff (a and b are reassigned)
  a0, b0,             \* a and b as dirextdiff was called
  pc,                 \* the statement about to run
  diff_out,           \* the lines of diff's output
  changed_files,      \* the list of entries
  printed,            \* the lines passed to print
  i,                  \* the index of the entry a for loop is at
  tmp,                \* the name of the TemporaryDirectory, <<>> before it exists
  argv,               \* the command line passed to subprocess.call
  status,             \* what subprocess.call returned, -1 before it returns
  err,                \* the exception in flight inside the with block
  surfaced,           \* the exception dirextdiff raised to its caller
  log,                \* every file-system and subprocess call made so far
  files0,             \* the files when dirextdiff was called
  staged0,            \* the staged files when the external tool returned
  touched,            \* the staged files the external tool rewrote or removed
  diff_rc             \* the exit status of diff, -1 before it has run

vars == << files, dirs, a, b, a0, b0, command, pc, diff_out, changed_files, printed, i,
           tmp, argv, status, err, surfaced, log, files0, staged0, touched, diff_rc >>

NONE == "None"

atmp == join(tmp, << <<"a">> >>)
btmp == join(tmp, << <<"b">> >>)

call(op, src, dst, ok) == [op |-> op, src |-> src, dst |-> dst, ok |-> ok]

\* An exception raised outside the with block reaches the caller at once.
raise(e) == pc' = "failed" /\ surfaced' = e /\ UNCHANGED err

\* An exception raised inside a block that removes the tree only at its end.
raise_skipping_exit(e) == pc' = "failed" /\ surfaced' = e /\ UNCHANGED err

\* An exception raised inside the with block runs TemporaryDirectory.__exit__ first.
raise_in_with(e) == pc' = "exit" /\ err' = e /\ UNCHANGED surfaced

\* ------------------------------------------------------------------ inputs
A == << <<"A">> >>
B == << <<"B">> >>
X == <<"x">>
Y == <<"y">>
P == <<"p">>
PandA == <<"p", "and", "a">>
XandB == <<"x", "and", "B">>

some(p, cs) == { [q \in {abspath(p)} |-> c] : c \in cs }

none == { [q \in {} |-> ""] }

both(fs, gs) == { f @@ g : f \in fs, g \in gs }

\* The trees under A and B and the working directory: x on either side, y/x on
\* both sides, and a pair of files "p and a/x" in a directory whose name holds
\* " and ", with or without the two files that the text of their line
\* ("Files A/p and a/x and B/p and a/x differ") also names when it is cut at its
\* last " and ": A/p and a/x and B/p, and a/x in the working directory.
Trees ==
  both(both(both(none \cup some(A \o <<X>>, {"foo", "bar"}),
                 none \cup some(B \o <<X>>, {"foo", "bar"})),
            none \cup both(some(A \o <<Y, X>>, {"bar"}),
                           some(B \o <<Y, X>>, {"bar", "baz"}))),
       none \cup both(both(some(A \o <<PandA, X>>, {"foo"}),
                           some(B \o <<PandA, X>>, {"bar"})),
                      both(none \cup some(A \o <<PandA, XandB, P>>, {"foo"}),
                           none \cup some(<< <<"a">>, X >>, {"qux"}))))

Commands ==
  { main_command(p, c) :
      p \in DOMAIN PROGRAMS,
      c \in { <<>>, << <<"meld">>, <<"{a}", SLASH, "x">>, <<"{b}", SLASH, "x">> >>,
              << <<"tool">>, <<"{c}">> >> } }

Init ==
  /\ files \in Trees
  /\ dirs = {CWD, abspath(A), abspath(B), TMPBASE}
              \cup UNION { ancestors(dirname(f)) : f \in DOMAIN files }
  /\ a \in {A, A \o <<X>>}
  /\ b \in {B, B \o <<X>>, A \o <<X>>}
  /\ a0 = a
  /\ b0 = b
  /\ command \in Commands
  /\ pc = "start"
  /\ diff_out = <<>>
  /\ changed_files = <<>>
  /\ printed = <<>>
  /\ i = 0
  /\ tmp = <<>>
  /\ argv = <<>>
  /\ status = -1
  /\ err = NONE
  /\ surfaced = NONE
  /\ log = <<>>
  /\ files0 = files
  /\ staged0 = [q \in {} |-> ""]
  /\ touched = {}
  /\ diff_rc = -1

\* ----------------------------------------------------------------- actions
n_entries == Len(changed_files)

\* The branch selection without the elif of line 36.
root_kinds_no_elif(fa, fb) ==
  IF fa THEN (IF ~fb THEN "ValueError" ELSE "files") ELSE "dirs"

\* Lines 27-38: the branch the kinds of the two roots select.  In file mode
\* lines 34-35 reassign a and b to the directories of the two files.
root_kinds(fa, fb) ==
  IF fa THEN (IF ~fb THEN "ValueError" ELSE "files")
  ELSE IF fb THEN "ValueError"
  ELSE "dirs"

CheckRoots ==
  /\ pc = "start"
  /\ LET kind == root_kinds(isfile(a), isfile(b)) IN
     IF kind = "ValueError"
     THEN raise("ValueError") /\ UNCHANGED << changed_files, a, b >>
     ELSE IF kind = "files"
          THEN /\ changed_files' = << file_entry(a, b) >>
               /\ a' = split(a)[1]
               /\ b' = split(b)[1]
               /\ pc' = "mktemp"
               /\ UNCHANGED << err, surfaced >>
          ELSE pc' = "diff" /\ UNCHANGED << changed_files, a, b, err, surfaced >>
  /\ UNCHANGED << files, dirs, a0, b0, command, diff_out, printed, i, tmp, argv,
                  status, log, files0, staged0, touched, diff_rc >>

\* Lines 39-46: diff -r -q a b.  Status 0 and 1 hand the output on; any other
\* status (here 2, which diff also reports when the environment gives it trouble
\* reading a tree) is re-raised.
\* The status test without the except clause of lines 42-44.
accepted_zero_only(rc) == rc = 0

\* Lines 39-46: check_output returns on status 0; status 1 is caught.
accepted(rc) == rc = 0 \/ rc = 1

RunDiff ==
  /\ pc = "diff"
  /\ \E rc \in {diff_status(a, b), 2} :
       /\ diff_rc' = rc
       /\ log' = Append(log, call("diff", a, b, accepted(rc)))
       /\ IF accepted(rc)
          THEN /\ diff_out' = diff_output(a, b)
               /\ pc' = "parse"
               /\ UNCHANGED << err, surfaced >>
          ELSE raise("CalledProcessError") /\ UNCHANGED diff_out
  /\ UNCHANGED << files, dirs, a, b, a0, b0, command, changed_files, printed, i, tmp,
                  argv, status, files0, staged0, touched >>

\* Lines 47-56: the loop over the lines.
ParseOutput ==
  /\ pc = "parse"
  /\ changed_files' = parse_entries(diff_out, a, b)
  /\ printed' = parse_printed(diff_out)
  /\ pc' = "mktemp"
  /\ UNCHANGED << files, dirs, a, b, a0, b0, command, diff_out, i, tmp, argv, status,
                  err, surfaced, log, files0, staged0, touched, diff_rc >>

\* Line 58: tempfile.TemporaryDirectory(prefix='dirextdiff').
MakeTemp ==
  /\ pc = "mktemp"
  /\ LET t == TMPBASE \o << <<"dirextdiff">> >> IN
     \E ok \in BOOLEAN :
       /\ log' = Append(log, call("mkdtemp", <<>>, t, ok))
       /\ IF ok
          THEN /\ tmp' = t
               /\ dirs' = dirs \cup {t}
               /\ pc' = "mkdir_a"
               /\ UNCHANGED << err, surfaced >>
          ELSE raise("OSError:mkdtemp") /\ UNCHANGED << tmp, dirs >>
  /\ UNCHANGED << files, a, b, a0, b0, command, diff_out, changed_files, printed, i,
                  argv, status, files0, staged0, touched, diff_rc >>

\* Lines 59-62: os.mkdir(atmp), os.mkdir(btmp).
mkdir_step(d, next) ==
  \E ok \in BOOLEAN :
    /\ ok => mkdir_ok(d)
    /\ log' = Append(log, call("mkdir", <<>>, d, ok))
    /\ IF ok
       THEN dirs' = dirs \cup {abspath(d)} /\ pc' = next /\ UNCHANGED << err, surfaced >>
       ELSE raise_in_with("OSError:mkdir") /\ UNCHANGED dirs

MkdirA ==
  /\ pc = "mkdir_a"
  /\ mkdir_step(atmp, "mkdir_b")
  /\ UNCHANGED << files, a, b, a0, b0, command, diff_out, changed_files, printed, i, tmp,
                  argv, status, files0, staged0, touched, diff_rc >>

MkdirB ==
  /\ pc = "mkdir_b"
  /\ mkdir_step(btmp, IF n_entries = 0 THEN "invoke" ELSE "stage_dirs_a")
  /\ i' = IF pc' = "exit" THEN i ELSE 1
  /\ UNCHANGED << files, a, b, a0, b0, command, diff_out, changed_files, printed, tmp,
                  argv, status, files0, staged0, touched, diff_rc >>

\* Where an entry's two copies are staged (lines 64-69 and 74-75).
staged_a(e) == join(atmp, e.arel)
staged_b(e) == join(btmp, e.brel)

\* Lines 64-67: os.makedirs(os.path.dirname(...), exist_ok=True).
makedirs_step(d, next) ==
  \E ok \in BOOLEAN :
    /\ ok => makedirs_ok(d)
    /\ log' = Append(log, call("makedirs", <<>>, d, ok))
    /\ IF ok
       THEN dirs' = makedirs_dirs(d) /\ pc' = next /\ UNCHANGED << err, surfaced >>
       ELSE raise_in_with("OSError:makedirs") /\ UNCHANGED dirs

StageDirsA ==
  /\ pc = "stage_dirs_a"
  /\ makedirs_step(dirname(staged_a(changed_files[i])), "stage_dirs_b")
  /\ UNCHANGED << files, a, b, a0, b0, command, diff_out, changed_files, printed, i, tmp,
                  argv, status, files0, staged0, touched, diff_rc >>

StageDirsB ==
  /\ pc = "stage_dirs_b"
  /\ makedirs_step(dirname(staged_b(changed_files[i])), "stage_copy_a")
  /\ UNCHANGED << files, a, b, a0, b0, command, diff_out, changed_files, printed, i, tmp,
                  argv, status, files0, staged0, touched, diff_rc >>

\* shutil.copy(src, dst) inside the with block.
copy_step(src, dst, next, e) ==
  \E ok \in BOOLEAN :
    /\ ok => copy_ok(src, dst)
    /\ log' = Append(log, call("copy", src, dst, ok))
    /\ IF ok
       THEN files' = copy_files(src, dst) /\ pc' = next /\ UNCHANGED << err, surfaced >>
       ELSE raise_in_with(e) /\ UNCHANGED files

\* Lines 68-69.
StageCopyA ==
  /\ pc = "stage_copy_a"
  /\ copy_step(changed_files[i].afile, staged_a(changed_files[i]), "stage_copy_b",
               "OSError:stage")
  /\ UNCHANGED << dirs, a, b, a0, b0, command, diff_out, changed_files, printed, i, tmp,
                  argv, status, files0, staged0, touched, diff_rc >>

StageCopyB ==
  /\ pc = "stage_copy_b"
  /\ copy_step(changed_files[i].bfile, staged_b(changed_files[i]),
               IF i < n_entries THEN "stage_dirs_a" ELSE "invoke", "OSError:stage")
  /\ i' = IF pc' = "stage_dirs_a" THEN i + 1 ELSE i
  /\ UNCHANGED << dirs, a, b, a0, b0, command, diff_out, changed_files, printed, tmp,
                  argv, status, files0, staged0, touched, diff_rc >>

\* Line 71: the command line handed to subprocess.call.
formatted(cmd, ka, kb) == [n \in 1..Len(cmd) |-> format(cmd[n], ka, kb)]

\* What the external tool may do to the staging area while it runs: it leaves
\* each staged file alone, rewrites it, or removes it.
staged_now == { f \in DOMAIN files : isprefix(tmp, f) }

ToolOps ==
  { ops \in [staged_now -> {"keep", "edit", "remove"}] :
      Cardinality({ f \in staged_now : ops[f] # "keep" }) <= MaxToolOps }

tool_files(ops) ==
  [q \in { f \in DOMAIN files : f \in staged_now => ops[f] # "remove" } |->
     IF q \in staged_now /\ ops[q] = "edit" THEN "edited" ELSE files[q]]

\* Line 71: subprocess.call([x.format(a=atmp, b=btmp) for x in command]).  The
\* return value is dropped.
Invoke ==
  /\ pc = "invoke"
  /\ IF \E n \in 1..Len(command) : ~format_ok(command[n])
     THEN /\ raise_in_with("KeyError")
          /\ UNCHANGED << files, argv, status, log, staged0, touched >>
     ELSE /\ argv' = formatted(command, atmp, btmp)
          /\ \E started \in BOOLEAN :
               /\ log' = Append(log, call("call", <<>>, <<>>, started))
               /\ IF started
                  THEN \E ops \in ToolOps, rc \in {0, 1} :
                         /\ files' = tool_files(ops)
                         /\ staged0' = [q \in { f \in DOMAIN files' : isprefix(tmp, f) }
                                          |-> files'[q]]
                         /\ touched' = { f \in staged_now : ops[f] # "keep" }
                         /\ status' = rc
                         /\ pc' = IF n_entries = 0 THEN "exit" ELSE "sync_a"
                         /\ UNCHANGED << err, surfaced >>
                  ELSE /\ raise_in_with("OSError:call")
                       /\ UNCHANGED << files, status, staged0, touched >>
  /\ i' = IF pc' = "sync_a" THEN 1 ELSE i
  /\ UNCHANGED << dirs, a, b, a0, b0, command, diff_out, changed_files, printed, tmp, files0,
                  diff_rc >>

\* Lines 73-75: the copies back to the original locations.
sync_a(e) == << staged_a(e), e.afile >>
sync_b(e) == << staged_b(e), e.bfile >>

SyncA ==
  /\ pc = "sync_a"
  /\ copy_step(sync_a(changed_files[i])[1], sync_a(changed_files[i])[2], "sync_b",
               "OSError:sync")
  /\ UNCHANGED << dirs, a, b, a0, b0, command, diff_out, changed_files, printed, i, tmp,
                  argv, status, files0, staged0, touched, diff_rc >>

SyncB ==
  /\ pc = "sync_b"
  /\ copy_step(sync_b(changed_files[i])[1], sync_b(changed_files[i])[2],
               IF i < n_entries THEN "sync_a" ELSE "exit", "OSError:sync")
  /\ i' = IF pc' = "sync_a" THEN i + 1 ELSE i
  /\ UNCHANGED << dirs, a, b, a0, b0, command, diff_out, changed_files, printed, tmp,
                  argv, status, files0, staged0, touched, diff_rc >>

\* Line 58, the end of the with block: TemporaryDirectory.__exit__ removes the
\* tree.  When the removal raises, that exception replaces the one in flight.
exit_raises(e, removed) == IF removed THEN e ELSE "OSError:cleanup"

ExitWith ==
  /\ pc = "exit"
  /\ \E removed \in BOOLEAN :
       /\ log' = Append(log, call("rmtree", <<>>, tmp, removed))
       /\ files' = IF removed THEN rmtree_files(tmp) ELSE files
       /\ dirs' = IF removed THEN rmtree_dirs(tmp) ELSE dirs
       /\ surfaced' = exit_raises(err, removed)
       /\ pc' = IF surfaced' = NONE THEN "done" ELSE "failed"
  /\ UNCHANGED << a, b, a0, b0, command, diff_out, changed_files, printed, i, tmp, argv,
                  status, err, files0, staged0, touched, diff_rc >>

Next ==
  \/ CheckRoots
  \/ RunDiff
  \/ ParseOutput
  \/ MakeTemp
  \/ MkdirA
  \/ MkdirB
  \/ StageDirsA
  \/ StageDirsB
  \/ StageCopyA
  \/ StageCopyB
  \/ Invoke
  \/ SyncA
  \/ SyncB
  \/ ExitWith

Spec == Init /\ [][Next]_vars

\* ------------------------------------------------------------- properties
Terminal == pc \in {"done", "failed"}

\* dirextdiff returned normally.
Completed == pc = "done"

\* The two copies of every entry.
Sides == (1..n_entries) \X {"a", "b"}

orig(s) == IF s[2] = "a" THEN changed_files[s[1]].afile ELSE changed_files[s[1]].bfile

stage(s) ==
  abspath(IF s[2] = "a" THEN staged_a(changed_files[s[1]])
          ELSE staged_b(changed_files[s[1]]))

\* No two copies share an original or a place in the staging area.
distinct_sides ==
  \A s, t \in Sides : s # t => (orig(s) # orig(t) /\ stage(s) # stage(t))

\* The positions in the log of the calls of one kind.
calls_of(op) == { n \in 1..Len(log) : log[n].op = op }

\* The copies back to the originals are the copies made after subprocess.call.
sync_copies == { n \in calls_of("copy") : \E c \in calls_of("call") : c < n }

stage_copies == calls_of("copy") \ sync_copies

synced(s) ==
  \E n \in sync_copies : abspath(log[n].src) = stage(s) /\ log[n].dst = orig(s)

\* The originals the comparison is about: the pair itself in file mode, and in
\* directory mode the files present under both roots with different contents.
file0(p) == abspath(p) \in DOMAIN files0

Differing0 ==
  IF file0(a0) /\ file0(b0) THEN {abspath(a0), abspath(b0)}
  ELSE UNION { {f, abspath(b0) \o SubSeq(f, Len(abspath(a0)) + 1, Len(f))} :
               f \in { g \in DOMAIN files0 :
                         /\ isprefix(abspath(a0), g)
                         /\ LET h == abspath(b0) \o SubSeq(g, Len(abspath(a0)) + 1, Len(g))
                            IN h \in DOMAIN files0 /\ files0[h] # files0[g] } }

originals_kept == \A f \in DOMAIN files0 : f \in DOMAIN files /\ files[f] = files0[f]

\* C1 as stated: after every execution path on which the staging root was
\* created, the staging root no longer exists when the operation ends.
C1_StagingRootGone ==
  (Terminal /\ tmp # <<>>) => (tmp \notin dirs /\ staged_now = {})

\* C1 amended: on every such path the removal of the staging root is the last
\* call the operation makes, and the root no longer exists unless that removal
\* itself failed.
C1_RemovalAlwaysAttempted ==
  (Terminal /\ tmp # <<>>) =>
     /\ Len(log) > 0
     /\ log[Len(log)].op = "rmtree"
     /\ log[Len(log)].dst = tmp
     /\ Cardinality(calls_of("rmtree")) = 1
     /\ log[Len(log)].ok => (tmp \notin dirs /\ staged_now = {})

C1_Witness ==
  /\ pc = "failed"
  /\ err = "OSError:sync"
  /\ tmp # <<>>
  /\ tmp \notin dirs

\* C2: when the tool has rewritten a staged copy, the operation that completes
\* leaves that content at the original path recorded in the entry, and every
\* original that is not the original of a rewritten copy keeps its content.
C2_EditAtOriginalOnly ==
  Completed =>
     /\ \A s \in Sides :
          stage(s) \in touched => files[orig(s)] = staged0[stage(s)]
     /\ \A f \in DOMAIN files0 :
          (~ \E s \in Sides : orig(s) = f /\ stage(s) \in touched)
             => (f \in DOMAIN files /\ files[f] = files0[f])

\* What holds of C2 when no two copies share an original or a staging place.
C2_HoldsForDistinctCopies ==
  (Completed /\ distinct_sides) =>
     /\ \A s \in Sides :
          stage(s) \in touched => files[orig(s)] = staged0[stage(s)]
     /\ \A f \in DOMAIN files0 :
          (~ \E s \in Sides : orig(s) = f /\ stage(s) \in touched)
             => (f \in DOMAIN files /\ files[f] = files0[f])

\* C3: with a tool that changes nothing in the staging area, every original
\* file has, when the operation ends, exactly the content it had before.
C3_NoOpToolPreserves == (Terminal /\ touched = {}) => originals_kept

\* C3, its remark on the files that do not differ: only files of the differing
\* pairs are ever staged or written.
C3_OnlyDifferingStaged ==
  /\ \A n \in stage_copies : log[n].ok => abspath(log[n].src) \in Differing0
  /\ \A n \in sync_copies : log[n].ok => abspath(log[n].dst) \in Differing0

\* What holds of C3 when the lines of diff are read back as diff wrote them
\* (every entry is a differing pair): both halves.
C3_HoldsForDifferingEntries ==
  (Terminal /\ touched = {} /\ \A s \in Sides : orig(s) \in Differing0) =>
     (originals_kept /\ C3_OnlyDifferingStaged)

\* C4: a root-kind mismatch fails with an error before a temporary directory
\* exists, before diff or the tool is run, and without writing any file.
mismatch0 == (file0(a0) /\ ~file0(b0)) \/ (isdir(a0) /\ file0(b0))

C4_MismatchFailsFirst ==
  (mismatch0 /\ pc # "start") =>
     /\ pc = "failed"
     /\ surfaced = "ValueError"
     /\ log = <<>>
     /\ tmp = <<>>
     /\ diff_rc = -1
     /\ argv = <<>>
     /\ files = files0
     /\ \A d \in dirs : ~isprefix(TMPBASE, d) \/ d = TMPBASE

C4_Witness ==
  /\ pc = "failed"
  /\ surfaced = "ValueError"
  /\ isdir(a0)
  /\ file0(b0)

\* C5: when a copy back fails, the copy back of every other staged file (both
\* sides of every other entry) has been attempted by the time the failure
\* reaches the caller.
C5_SyncBackAttemptsAll ==
  (Terminal /\ err = "OSError:sync") => \A s \in Sides : synced(s)

\* C6: when staging fails, nothing further is staged, the tool is not invoked,
\* no copy back is made and no original is written, the staging root is
\* removed, and the operation fails with the staging error.
staging_failed == err \in {"OSError:mkdir", "OSError:makedirs", "OSError:stage"}

C6_StagingFailureAborts ==
  (Terminal /\ staging_failed) =>
     /\ \E n \in 1..Len(log) :
          /\ ~log[n].ok
          /\ n = Len(log) - 1
          /\ log[Len(log)].op = "rmtree"
     /\ calls_of("call") = {}
     /\ argv = <<>>
     /\ status = -1
     /\ sync_copies = {}
     /\ originals_kept
     /\ tmp \notin dirs
     /\ pc = "failed"
     /\ surfaced = err

\* What holds of C6 whether or not the removal fails.
C6_HoldsBeforeCleanup ==
  (Terminal /\ staging_failed) =>
     /\ calls_of("call") = {}
     /\ argv = <<>>
     /\ status = -1
     /\ sync_copies = {}
     /\ originals_kept
     /\ pc = "failed"
     /\ log[Len(log)].op = "rmtree"
     /\ log[Len(log)].ok => (tmp \notin dirs /\ surfaced = err)

\* C7: diff's status 0 or 1 is no error and its output is what the loop reads;
\* any other status fails the operation with diff's error before a staging
\* directory exists and before the tool is invoked.
C7_DiffStatus ==
  /\ (diff_rc \in {0, 1}) =>
        /\ surfaced # "CalledProcessError"
        /\ pc = "parse" => diff_out = diff_output(a0, b0)
        /\ diff_rc = 1 => Len(diff_out) > 1
        /\ pc # "diff"
        /\ Terminal => calls_of("mkdtemp") # {}
  /\ (diff_rc \notin {-1, 0, 1}) =>
        /\ pc = "failed"
        /\ surfaced = "CalledProcessError"
        /\ Len(log) = 1
        /\ tmp = <<>>
        /\ argv = <<>>
        /\ files = files0

C7_Witness ==
  /\ diff_rc = 1
  /\ pc = "done"
  /\ n_entries > 0

\* C8: once the tool has returned, with whatever status, every entry is synced
\* back, every copy back is made while the staging root still exists, and the
\* status is never the operation's error.
C8_SyncBackAfterTool ==
  (Terminal /\ status # -1) =>
     /\ \A s \in Sides : synced(s)
     /\ \A n \in sync_copies : \A r \in calls_of("rmtree") : n < r
     /\ surfaced \in {NONE, "OSError:sync", "OSError:cleanup"}
     /\ (status # 0 /\ err = NONE /\ log[Len(log)].ok) => pc = "done"

\* What holds of C8 whether or not a copy back fails.
C8_HoldsApartFromFailedCopies ==
  (Terminal /\ status # -1) =>
     /\ err = NONE => \A s \in Sides : synced(s)
     /\ \A n \in sync_copies : \A r \in calls_of("rmtree") : n < r
     /\ surfaced \in {NONE, "OSError:sync", "OSError:cleanup"}
     /\ (status # 0 /\ err = NONE /\ log[Len(log)].ok) => pc = "done"

\* C9: when the tool is about to be invoked, the staging area holds for every
\* entry a copy of the a-side original at <staging a>/<arel> and of the b-side
\* original at <staging b>/<brel>, inside directories that exist; the command
\* line is the template with the two staging subtrees in its fields.
C9_StagedAtInvoke ==
  /\ pc = "invoke" =>
       \A s \in Sides :
          /\ stage(s) \in DOMAIN files
          /\ files[stage(s)] = files0[orig(s)]
          /\ dirname(stage(s)) \in dirs
  /\ argv # <<>> =>
       /\ argv = formatted(command, atmp, btmp)
       /\ \A n \in stage_copies : log[n].ok
       /\ \A s \in Sides :
            \E n \in stage_copies : log[n].src = orig(s) /\ abspath(log[n].dst) = stage(s)

\* What holds of C9 when no two copies share a place in the staging area.
C9_HoldsForDistinctStaging ==
  (pc = "invoke" /\ \A s, t \in Sides : s # t => stage(s) # stage(t)) =>
     \A s \in Sides :
        /\ stage(s) \in DOMAIN files
        /\ files[stage(s)] = files0[orig(s)]
        /\ dirname(stage(s)) \in dirs

\* C10: when a stage failed, the error the caller gets is that stage's error
\* even if the removal of the staging root failed too; the cleanup error reaches
\* the caller only when it is the sole failure.
C10_OriginalErrorSurfaces ==
  pc = "failed" =>
     /\ err # NONE => surfaced = err
     /\ surfaced = "OSError:cleanup" => err = NONE

====
